---- MODULE Spec2Model ----
(***************************************************************************)
(* State-machine model of the vsweep library: SweepResult / SweepStep      *)
(* (base.py), VectorSweep, LinearSweep and LogSweep (vector.py) and        *)
(* AdaptiveSweep (adaptive.py), driven by a caller that starts iteration,  *)
(* asks for the next step and writes y on the step it was handed.          *)
(*                                                                         *)
(* Four specifications share the state:                                    *)
(*   Spec        a VectorSweep or an AdaptiveSweep, constructed, is        *)
(*               iterated by a caller that writes y;                       *)
(*   SpecRange   a LinearSweep or a LogSweep is constructed from its       *)
(*               arguments (or refused) and then iterated;                 *)
(*   SpecResult  a caller builds SweepResults and applies + and == ;       *)
(*   SpecObjects a VectorSweep is iterated once by a caller that keeps     *)
(*               the object VectorSweep.result returned and adds to it.    *)
(*                                                                         *)
(* Python values are tagged records so that numbers, None and sequences    *)
(* can be stored side by side; an optional attribute (None or a value) is  *)
(* a sequence of length 0 or 1.  Wall-clock readings are abstracted to a   *)
(* token: only whether _start_time is set decides the control flow.        *)
(***************************************************************************)
EXTENDS Integers, Sequences, FiniteSets, TLC

\* ------------------------------------------------------------------ bounds
MaxLen == 3      \* longest vector handed to VectorSweep
MaxPasses == 2   \* largest npasses
MaxCalls == 6    \* __next__ calls the caller makes between two __iter__ calls
MaxStops == 2    \* __next__ calls answered by StopIteration between two __iter__ calls
MaxAsks == 3     \* steps an AdaptiveSweep hands out between two __iter__ calls
MaxPoints == 2   \* largest AdaptiveSweep budget (npoints)
MaxCoord == 3    \* start and stop of a LinearSweep / LogSweep range over 0..MaxCoord
MaxSteps == 4    \* largest nsteps given to LinearSweep / LogSweep
MaxNum == 2      \* largest numerator of a max_step_size / max_step_factor exponent
MaxDen == 2      \* largest denominator of the same

\* ------------------------------------------------------------ Python values
NoneT == <<>>
Some(v) == <<v>>

None == [k |-> "none", n |-> 0, items |-> <<>>]
Num(i) == [k |-> "num", n |-> i, items |-> <<>>]
List(s) == [k |-> "list", n |-> 0, items |-> s]
Str(s) == [k |-> "str", n |-> 0, items |-> s]    \* s: the character codes

\* list(v) succeeds exactly on iterables; on None or a number it raises TypeError
IsIterable(v) == v.k \in {"list", "str"}

\* list(v) for an iterable v: a list's elements, a string's characters
list(v) ==
    IF v.k = "str"
    THEN [i \in 1..Len(v.items) |-> Str(<<v.items[i]>>)]
    ELSE v.items

\* x values a vector may hold (a number and a point given as a sequence: the
\* code never compares elements, so two kinds tell every position apart),
\* y values a caller may write, and the x values the engine may propose
XVals == {Num(1), List(<<Num(1), Num(2)>>)}
YVals == {Num(7), List(<<Num(7)>>)}
Domain == {Num(1), Num(2)}
Vectors == UNION {[1..n -> XVals] : n \in 0..MaxLen}

\* --------------------------------------------------------------- base.py
\* (variant: a scalar None is stored as an empty sequence)
SweepResultDropNone(x, y) ==
    IF IsIterable(x) /\ IsIterable(y)
    THEN [x |-> list(x), y |-> list(y)]
    ELSE [x |-> IF x = None THEN <<>> ELSE <<x>>,
          y |-> IF y = None THEN <<>> ELSE <<y>>]

\* SweepResult.__init__(x, y) with both arguments given
SweepResult(x, y) ==
    IF IsIterable(x) /\ IsIterable(y)
    THEN [x |-> list(x), y |-> list(y)]
    ELSE [x |-> <<x>>, y |-> <<y>>]

\* SweepResult.__iter__ : iter([self.x, self.y])
SweepResult__iter__(self) == <<List(self.x), List(self.y)>>

\* SweepResult.__init__(x) with x a SweepResult: x, y = x, then as above
SweepResultOf(other) ==
    LET xy == SweepResult__iter__(other)
    IN SweepResult(xy[1], xy[2])

\* (variant: the other's values come first)
SweepResult__add__before(self, ox, oy) ==
    LET other == SweepResult(ox, oy)
    IN SweepResult(List(other.x \o self.x), List(other.y \o self.y))

\* SweepResult.__add__(self, other) with other the pair [ox, oy]
SweepResult__add__(self, ox, oy) ==
    LET other == SweepResult(ox, oy)
    IN SweepResult(List(self.x \o other.x), List(self.y \o other.y))

\* self + other for two SweepResults: SweepResult(*other) unpacks other
Plus(self, other) ==
    LET xy == SweepResult__iter__(other)
    IN SweepResult__add__(self, xy[1], xy[2])

\* (variant: only x is compared)
SweepResult__eq__x(self, other) ==
    LET o == SweepResultOf(other)
    IN self.x = o.x

\* SweepResult.__eq__ with other a SweepResult; list == list compares the
\* lengths and the elements position by position
SweepResult__eq__(self, other) ==
    LET o == SweepResultOf(other)
    IN self.x = o.x /\ self.y = o.y

\* SweepStep.__init__
SweepStep(x, y, step_number, total, elapsed_time) ==
    [x |-> x, y |-> y, n |-> step_number, total |-> total,
     elapsed_time |-> elapsed_time]

\* ------------------------------------------------------- Python objects
\* A list and a SweepResult are objects: a name or an attribute refers to one
\* and two of them may refer to the same one.  The objects are kept in a
\* sequence of cells, a reference is an index into it; a SweepResult cell
\* refers to the two lists of its attributes x and y.  The elements of a list
\* are held by value: only the lists a SweepResult refers to are followed.
Freed == [k |-> "free", items |-> <<>>, x |-> 0, y |-> 0]
ListObject(items) == [k |-> "list", items |-> items, x |-> 0, y |-> 0]
ResultObject(x, y) == [k |-> "result", items |-> <<>>, x |-> x, y |-> y]

\* a new object takes the first free cell
Alloc(cells, c) ==
    LET free == {a \in 1..Len(cells) : cells[a].k = "free"}
        a == IF free = {}
             THEN Len(cells) + 1
             ELSE CHOOSE f \in free : \A g \in free : f <= g
    IN [cells |-> IF a > Len(cells) THEN Append(cells, c)
                                    ELSE [cells EXCEPT ![a] = c],
        ref |-> a]

\* r.x and r.y as Python values
XOf(cells, r) == List(cells[cells[r].x].items)
YOf(cells, r) == List(cells[cells[r].y].items)

\* SweepResult.__init__ : list(x), list(y), [x] and [y] each make a new
\* list, which the attributes of the new SweepResult refer to
SweepResult__init__(cells, x, y) ==
    LET r == SweepResult(x, y)
        lx == Alloc(cells, ListObject(r.x))
        ly == Alloc(lx.cells, ListObject(r.y))
    IN Alloc(ly.cells, ResultObject(lx.ref, ly.ref))

\* (variant: the lists of self are extended in place and self is returned)
SweepResult__iadd__(cells, self, ox, oy) ==
    LET other == SweepResult__init__(cells, ox, oy)
        o == other.cells
    IN [cells |-> [o EXCEPT ![o[self].x].items = @ \o XOf(o, other.ref).items,
                            ![o[self].y].items = @ \o YOf(o, other.ref).items],
        ref |-> self]

\* SweepResult.__add__ : other = SweepResult(*other) is a new object, list +
\* list is a new list, and so is the SweepResult returned
SweepResult__add__objects(cells, self, ox, oy) ==
    LET other == SweepResult__init__(cells, ox, oy)
        o == other.cells
        sx == Alloc(o, ListObject(XOf(o, self).items \o XOf(o, other.ref).items))
        sy == Alloc(sx.cells,
                    ListObject(YOf(o, self).items \o YOf(o, other.ref).items))
    IN SweepResult__init__(sy.cells, List(sx.cells[sx.ref].items),
                           List(sy.cells[sy.ref].items))

\* an object nothing refers to any more is freed: the cells that stay are
\* the SweepResults of roots and their lists
RECURSIVE Trim(_)
Trim(cells) ==
    IF cells = <<>> \/ cells[Len(cells)].k # "free"
    THEN cells
    ELSE Trim(SubSeq(cells, 1, Len(cells) - 1))

Collect(cells, roots) ==
    LET live == roots \cup {cells[r].x : r \in roots}
                      \cup {cells[r].y : r \in roots}
    IN Trim([a \in 1..Len(cells) |-> IF a \in live THEN cells[a] ELSE Freed])

\* ------------------------------------------------------- Python sequences
\* clamp a given slice index as CPython's PySlice_AdjustIndices does
AdjustIndex(i, len, step) ==
    IF i < 0
    THEN (IF i + len < 0 THEN (IF step < 0 THEN -1 ELSE 0) ELSE i + len)
    ELSE (IF i >= len THEN (IF step < 0 THEN len - 1 ELSE len) ELSE i)

SliceLength(lo, hi, step) ==
    IF step < 0
    THEN (IF hi < lo THEN ((lo - hi - 1) \div (-step)) + 1 ELSE 0)
    ELSE (IF lo < hi THEN ((hi - lo - 1) \div step) + 1 ELSE 0)

\* s[start:stop:step] (0-based indices as in Python)
Slice(s, start, stop, step) ==
    LET lo == AdjustIndex(start, Len(s), step)
        hi == AdjustIndex(stop, Len(s), step)
    IN [i \in 1..SliceLength(lo, hi, step) |-> s[lo + (i - 1) * step + 1]]

\* chain(*repeat(s, n))
RECURSIVE ChainRepeat(_, _)
ChainRepeat(s, n) == IF n <= 0 THEN <<>> ELSE s \o ChainRepeat(s, n - 1)

\* ------------------------------------------------------------------ state
VARIABLES
    kind,         \* "vector" (VectorSweep) or "adaptive" (AdaptiveSweep)
    vector,       \* VectorSweep.vector
    roundtrip,    \* VectorSweep.roundtrip
    npasses,      \* VectorSweep.npasses
    update,       \* TRUE iff a per-step callback was given
    npoints,      \* AdaptiveSweep.npoints
    _result,      \* accumulator, NoneT before the first __iter__
    _step,        \* the step handed out last, NoneT if none
    _iterator,    \* enumerate(...) : the list and the count already yielded
    _start_time,  \* NoneT or Some("t")
    _learner,     \* the engine, NoneT before the first __iter__
    last,         \* what the caller did last and how it ended
    calls,        \* what the callback received since the last __iter__
    hist,         \* history of the run, kept for stating the properties
    args,         \* the arguments the constructor was called with
    out,          \* SweepResults a caller holds and what + and == gave on them
    objects       \* the list and SweepResult objects of a VectorSweep's
                  \* accumulator and of the caller, and what self._result
                  \* refers to

vars == <<kind, vector, roundtrip, npasses, update, npoints, _result, _step,
          _iterator, _start_time, _learner, last, calls, hist, args, out,
          objects>>

config == <<kind, vector, roundtrip, npasses, update, npoints, args>>

\* no object yet: self._result is None
NoObjects == [cells |-> <<>>, _result |-> NoneT]

\* the SweepResult objects the caller refers to
Held ==
    (IF out.a = NoneT THEN {} ELSE {out.a[1].ref}) \cup
    (IF out.sum = NoneT THEN {} ELSE {out.sum[1].r.ref})

\* self._result = r, r the object just made in cells
Rebound(r) ==
    [cells |-> Collect(r.cells, Held \cup {r.ref}), _result |-> Some(r.ref)]

\* no SweepResult built by the caller
NoOut == [a |-> NoneT, b |-> NoneT, c |-> NoneT, eq |-> NoneT, sum |-> NoneT]

\* produced: the x of every step handed out since the last __iter__;
\* ys: the y the caller left on each of them; stops: the StopIterations raised
\* since then; prevX: the x sequence of the last run that reached exhaustion
NoHist == [stops |-> 0, produced |-> <<>>, ys |-> <<>>, prevX |-> NoneT]

\* __next__ calls answered since the last __iter__
CallsThisRun == Len(hist.produced) + hist.stops

\* after VectorSweep.__init__ / AdaptiveSweep.__init__
Init ==
    /\ kind \in {"vector", "adaptive"}
    /\ update \in BOOLEAN
    /\ IF kind = "vector"
       THEN /\ vector \in Vectors
            /\ roundtrip \in BOOLEAN
            /\ npasses \in 1..MaxPasses
            /\ npoints = 0
       ELSE /\ vector = <<>>
            /\ roundtrip = FALSE
            /\ npasses = 1
            /\ npoints \in 0..MaxPoints
    /\ _result = NoneT
    /\ _step = NoneT
    /\ _iterator = NoneT
    /\ _start_time = NoneT
    /\ _learner = NoneT
    /\ last = "init"
    /\ calls = <<>>
    /\ hist = NoHist
    /\ objects = NoObjects
    /\ args = [cls |-> IF kind = "vector" THEN "VectorSweep" ELSE "AdaptiveSweep"]
    /\ out = NoOut

\* -------------------------------------------------------------- vector.py
\* VectorSweep.result
result == _result

\* (variant: the length counts only what is left to walk)
LenRemaining ==
    LET total == Len(vector) * npasses * (IF roundtrip THEN 2 ELSE 1)
    IN IF _iterator = NoneT THEN total ELSE total - _iterator[1].n

\* VectorSweep.__len__
__len__ ==
    LET total == Len(vector) * npasses
    IN IF roundtrip THEN total * 2 ELSE total

\* (variant: the backward half starts at the last element, repeating the turn)
RoundtripKeepTurn(v) == Slice(v, 0, Len(v), 1) \o Slice(v, -1, 0, -1)

\* list(chain(vector[::1], vector[-2:0:-1]))
Roundtrip(v) == Slice(v, 0, Len(v), 1) \o Slice(v, -2, 0, -1)

\* the roundtrip branch of __iter__
RoundtripPasses ==
    ChainRepeat(Roundtrip(vector), npasses) \o Slice(vector, 0, 1, 1)

\* (variant: npasses ignored)
PlainPassesOnce == vector

\* the plain branch of __iter__
PlainPasses == ChainRepeat(vector, npasses)

\* the list __iter__ hands to enumerate
Traversal == IF roundtrip THEN RoundtripPasses ELSE PlainPasses

\* __iter__ : "reset result"
ResetResult == Some(SweepResult(List(<<>>), List(<<>>)))

\* (variant: the pending step survives a restart)
KeepStep == _step

ResetStep == NoneT

\* __iter__ : self._result = SweepResult([], [])
ResetObjects ==
    Rebound(SweepResult__init__(objects.cells, List(<<>>), List(<<>>)))

\* __next__ : self._result = self._result + [self._step.x, self._step.y]
CommittedObjects ==
    IF _step # NoneT
    THEN Rebound(SweepResult__add__objects(objects.cells, objects._result[1],
                                           _step[1].x, _step[1].y))
    ELSE objects

\* __next__ : "save data of the previous step"
Committed ==
    IF _step # NoneT
    THEN Some(SweepResult__add__(_result[1], _step[1].x, _step[1].y))
    ELSE _result

\* (variant: the callback runs twice for a step)
NotifyTwice(log, step) ==
    IF update
    THEN log \o <<[x |-> step.x, y |-> step.y], [x |-> step.x, y |-> step.y]>>
    ELSE log

\* the callback receives the step: what it can read of it at that moment
Notify(log, step) ==
    IF update THEN Append(log, [x |-> step.x, y |-> step.y]) ELSE log

\* the history of a run that starts now
StartRun ==
    [stops |-> 0, produced |-> <<>>, ys |-> <<>>,
     prevX |-> IF hist.stops >= 1 THEN Some(hist.produced) ELSE hist.prevX]

Produce(x) ==
    [hist EXCEPT !.produced = Append(@, x), !.ys = Append(@, None)]

Stopped == [hist EXCEPT !.stops = @ + 1]

\* ys holds what each step's y was when the sweep was next called; a y written
\* after exhaustion was signalled is not part of the run
NoteY(y) ==
    IF hist.stops = 0 THEN [hist EXCEPT !.ys[Len(hist.ys)] = y] ELSE hist

\* VectorSweep.__iter__
Vector__iter__ ==
    /\ kind = "vector"
    /\ _start_time' = Some("t")
    /\ _result' = ResetResult
    /\ objects' = ResetObjects
    /\ _step' = ResetStep
    /\ _iterator' = Some([seq |-> Traversal, n |-> 0])
    /\ last' = "iter"
    /\ calls' = <<>>
    /\ hist' = StartRun
    /\ UNCHANGED <<config, out, _learner>>

\* VectorSweep.__next__ before any __iter__: time() - None raises TypeError
Vector__next__unstarted ==
    /\ kind = "vector"
    /\ _start_time = NoneT
    /\ last' = "TypeError"
    /\ UNCHANGED <<config, out, _result, _step, _iterator, _start_time, _learner,
                   calls, hist, objects>>

\* VectorSweep.__next__ when next(self._iterator) raises StopIteration
Vector__next__stop ==
    /\ kind = "vector"
    /\ CallsThisRun < MaxCalls
    /\ _start_time # NoneT
    /\ hist.stops < MaxStops
    /\ _iterator[1].n >= Len(_iterator[1].seq)
    /\ _result' = Committed
    /\ objects' = CommittedObjects
    /\ last' = "StopIteration"
    /\ hist' = Stopped
    /\ UNCHANGED <<config, out, _step, _iterator, _start_time, _learner, calls>>

\* VectorSweep.__next__ producing a step
Vector__next__step ==
    /\ kind = "vector"
    /\ CallsThisRun < MaxCalls
    /\ _start_time # NoneT
    /\ _iterator[1].n < Len(_iterator[1].seq)
    /\ LET n == _iterator[1].n
           x == _iterator[1].seq[n + 1]
           step == SweepStep(x, None, Some(n), Some(__len__), Some("dt"))
       IN /\ _result' = Committed
          /\ objects' = CommittedObjects
          /\ _iterator' = Some([_iterator[1] EXCEPT !.n = n + 1])
          /\ _step' = Some(step)
          /\ calls' = Notify(calls, step)
          /\ hist' = Produce(x)
    /\ last' = "step"
    /\ UNCHANGED <<config, out, _start_time, _learner>>

\* --------------------------------------- vector.py: LinearSweep, LogSweep
\* A float is held as the exact fraction n/d in lowest terms, d > 0: the
\* rounding of binary floating point is not modelled.
Abs(a) == IF a < 0 THEN -a ELSE a

RECURSIVE GCD(_, _)
GCD(a, b) == IF b = 0 THEN a ELSE GCD(b, a % b)

Float(p, q) ==
    LET g == GCD(Abs(p), Abs(q))
        s == IF q < 0 THEN -1 ELSE 1
    IN [k |-> "num", n |-> (s * p) \div g, d |-> (s * q) \div g, items |-> <<>>]

\* (variant: the quotient is rounded down)
Floor(p, q) == p \div q

\* math.ceil of the fraction p/q, q > 0
Ceil(p, q) == -((-p) \div q)

\* (variant: the endpoint is left out, as with endpoint=False)
LinspaceOpen(start, stop, num) ==
    [i \in 1..num |-> Float(start * num + (i - 1) * (stop - start), num)]

\* np.linspace(start, stop, num), num >= 0: start + i*step for i < num with
\* step = (stop - start)/(num - 1), the last of two or more set to stop
linspace(start, stop, num) ==
    [i \in 1..num |->
        IF num > 1 /\ i = num
        THEN Float(stop, 1)
        ELSE IF num > 1
             THEN Float(start * (num - 1) + (i - 1) * (stop - start), num - 1)
             ELSE Float(start, 1)]

\* (variant: a max_step_size of 0 is accepted)
NegativeStep(m) == m.n < 0

\* max_step_size <= 0
InvalidStep(m) == m.n <= 0

\* LinearSweep.__init__: int(ceil(abs((stop - start) / max_step_size))) + 1
LinearSteps(start, stop, m) ==
    Ceil(Abs((stop - start) * m.d), Abs(m.n)) + 1

\* the constructors' arguments; max_step is max_step_size or max_step_factor
NoArg(a) == a = NoneT

\* LinearSweep.__init__ raising ValueError: no object is made
LinearSweep__init__invalid ==
    /\ kind = "new"
    /\ args.cls = "LinearSweep"
    /\ last = "new"
    /\ ~NoArg(args.max_step)
    /\ InvalidStep(args.max_step[1])
    /\ last' = "ValueError"
    /\ UNCHANGED <<config, out, _result, _step, _iterator, _start_time, _learner,
                   calls, hist, objects>>

\* LinearSweep.__init__ with arguments accepted: the division, np.linspace (which
\* refuses nsteps=None) and VectorSweep.__init__
LinearSweep__init__ ==
    /\ kind = "new"
    /\ args.cls = "LinearSweep"
    /\ last = "new"
    /\ ~(~NoArg(args.max_step) /\ InvalidStep(args.max_step[1]))
    /\ IF ~NoArg(args.max_step) /\ args.max_step[1].n = 0
       THEN /\ last' = "ZeroDivisionError"
            /\ UNCHANGED <<kind, vector, roundtrip, npasses, update>>
       ELSE LET nsteps ==
                    IF ~NoArg(args.max_step)
                    THEN Some(LinearSteps(args.start, args.stop,
                                          args.max_step[1]))
                    ELSE args.nsteps
            IN IF NoArg(nsteps)
               THEN /\ last' = "TypeError"
                    /\ UNCHANGED <<kind, vector, roundtrip, npasses, update>>
               ELSE /\ last' = "init"
                    /\ kind' = "vector"
                    /\ vector' = linspace(args.start, args.stop, nsteps[1])
                    /\ roundtrip' = args.roundtrip
                    /\ npasses' = args.npasses
                    /\ update' = args.update
    /\ UNCHANGED <<npoints, args, out, _result, _step, _iterator, _start_time,
                   _learner, calls, hist, objects>>

\* LogSweep works on positive numbers: start and stop are held by their
\* base-2 logarithm (start = 2^args.start), max_step_factor as
\* [pos, log]: 2^log when pos, a number <= 0 otherwise.
\* max_step_factor <= 1
InvalidFactor(m) == ~m.pos \/ m.log.n <= 0

\* (variant: the logarithm of stop / start is taken without abs)
LogStepsSigned(start, stop, m) ==
    Ceil((stop - start) * m.log.d, m.log.n) + 1

\* LogSweep.__init__:
\* ceil(abs(np.log(stop / start)) / np.log(max_step_factor)) + 1
LogSteps(start, stop, m) ==
    Ceil(Abs(stop - start) * m.log.d, m.log.n) + 1

\* np.logspace(np.log10(start), np.log10(stop), num), by base-2 logarithm
logspace(start, stop, num) == linspace(start, stop, num)

\* LogSweep.__init__ raising ValueError: no object is made
LogSweep__init__invalid ==
    /\ kind = "new"
    /\ args.cls = "LogSweep"
    /\ last = "new"
    /\ ~NoArg(args.max_step)
    /\ InvalidFactor(args.max_step[1])
    /\ last' = "ValueError"
    /\ UNCHANGED <<config, out, _result, _step, _iterator, _start_time, _learner,
                   calls, hist, objects>>

\* LogSweep.__init__ with arguments accepted
LogSweep__init__ ==
    /\ kind = "new"
    /\ args.cls = "LogSweep"
    /\ last = "new"
    /\ ~(~NoArg(args.max_step) /\ InvalidFactor(args.max_step[1]))
    /\ LET nsteps ==
               IF ~NoArg(args.max_step)
               THEN Some(LogSteps(args.start, args.stop, args.max_step[1]))
               ELSE args.nsteps
       IN IF NoArg(nsteps)
          THEN /\ last' = "TypeError"
               /\ UNCHANGED <<kind, vector, roundtrip, npasses, update>>
          ELSE /\ last' = "init"
               /\ kind' = "vector"
               /\ vector' = logspace(args.start, args.stop, nsteps[1])
               /\ roundtrip' = args.roundtrip
               /\ npasses' = args.npasses
               /\ update' = args.update
    /\ UNCHANGED <<npoints, args, out, _result, _step, _iterator, _start_time,
                   _learner, calls, hist, objects>>

\* ------------------------------------------------------------ adaptive.py
\* The engine (Learner1D) is an external collaborator; it is modelled by the
\* contract AdaptiveSweep relies on: created empty, told observations, asked
\* for one x of its domain, and queried for its observation count.
Learner1D == [data |-> {}]

\* tell(x, y): data is keyed by x, an x already observed keeps its y
tell(learner, x, y) ==
    IF \E p \in learner.data : p.x = x
    THEN learner
    ELSE [learner EXCEPT !.data = @ \cup {[x |-> x, y |-> y]}]

\* learner.npoints
Observations(learner) == Cardinality(learner.data)

\* sorted(self._learner.data.items(), key=lambda v: v[0])
RECURSIVE SortedItems(_)
SortedItems(data) ==
    IF data = {}
    THEN <<>>
    ELSE LET p == CHOOSE q \in data : \A r \in data : q.x.n <= r.x.n
         IN <<p>> \o SortedItems(data \ {p})

\* reading a property either raises or returns a SweepResult
Raised(e) == [err |-> e, x |-> <<>>, y |-> <<>>]
Returned(r) == [err |-> "", x |-> r.x, y |-> r.y]

\* AdaptiveSweep.result : every outcome reading it can have.  np.array turns
\* the sorted (x, y) pairs into an n-by-2 array and SweepResult(*data.T) gets
\* its two columns; with no pair the array has no column and SweepResult()
\* lacks its argument; a pair whose y is a sequence makes the rows ragged,
\* which numpy either stores as objects or refuses, depending on its version
Adaptive_result ==
    IF _learner = NoneT
    THEN {Raised("AttributeError")}
    ELSE LET items == SortedItems(_learner[1].data)
             xs == [i \in 1..Len(items) |-> items[i].x]
             ys == [i \in 1..Len(items) |-> items[i].y]
         IN IF items = <<>>
            THEN {Raised("TypeError")}
            ELSE {Returned(SweepResult(List(xs), List(ys)))} \cup
                 (IF \E i \in 1..Len(ys) : IsIterable(ys[i])
                  THEN {Raised("ValueError")}
                  ELSE {})

\* (variant: the previous step is never reported to the engine)
ToldNever == _learner

\* __next__ : "save previous step result"
Told ==
    IF _step # NoneT
    THEN Some(tell(_learner[1], _step[1].x, _step[1].y))
    ELSE _learner

\* the callback receives x; the step holds this when it runs
NotifyX(log, step) ==
    IF update THEN Append(log, [x |-> step.x, y |-> step.y]) ELSE log

\* AdaptiveSweep.__iter__
Adaptive__iter__ ==
    /\ kind = "adaptive"
    /\ _learner' = Some(Learner1D)
    /\ _result' = ResetResult
    /\ _step' = ResetStep
    /\ last' = "iter"
    /\ calls' = <<>>
    /\ hist' = StartRun
    /\ UNCHANGED <<config, out, objects, _iterator, _start_time>>

\* AdaptiveSweep.__next__ before any __iter__: None has no npoints
Adaptive__next__unstarted ==
    /\ kind = "adaptive"
    /\ _learner = NoneT
    /\ last' = "AttributeError"
    /\ UNCHANGED <<config, out, _result, _step, _iterator, _start_time, _learner,
                   calls, hist, objects>>

\* AdaptiveSweep.__next__ when the budget is used up
Adaptive__next__stop ==
    /\ kind = "adaptive"
    /\ _learner # NoneT
    /\ hist.stops < MaxStops
    /\ Observations(Told[1]) >= npoints
    /\ _learner' = Told
    /\ last' = "StopIteration"
    /\ hist' = Stopped
    /\ UNCHANGED <<config, out, _result, _step, _iterator, _start_time, calls,
                   objects>>

\* (variant: the budget is read and the engine asked before the previous
\* step is reported)
Adaptive__next__step_unreported ==
    /\ kind = "adaptive"
    /\ _learner # NoneT
    /\ Len(hist.produced) < MaxAsks
    /\ Observations(_learner[1]) < npoints
    /\ \E x \in Domain :
          LET step == SweepStep(x, None, NoneT, NoneT, NoneT)
          IN /\ _learner' = Told
             /\ _step' = Some(step)
             /\ calls' = NotifyX(calls, step)
             /\ hist' = Produce(x)
    /\ last' = "step"
    /\ UNCHANGED <<config, out, objects, _result, _iterator, _start_time>>

\* AdaptiveSweep.__next__ producing a step at the x the engine proposes
Adaptive__next__step ==
    /\ kind = "adaptive"
    /\ _learner # NoneT
    /\ Len(hist.produced) < MaxAsks
    /\ Observations(Told[1]) < npoints
    /\ \E x \in Domain :
          LET step == SweepStep(x, None, NoneT, NoneT, NoneT)
          IN /\ _learner' = Told
             /\ _step' = Some(step)
             /\ calls' = NotifyX(calls, step)
             /\ hist' = Produce(x)
    /\ last' = "step"
    /\ UNCHANGED <<config, out, objects, _result, _iterator, _start_time>>

\* ------------------------------------------------------------- the caller
\* the caller writes y on the step it was handed (the sweep's own _step)
SetY ==
    /\ _step # NoneT
    /\ \E y \in YVals :
          /\ _step[1].y # y
          /\ _step' = Some([_step[1] EXCEPT !.y = y])
          /\ hist' = NoteY(y)
    /\ UNCHANGED <<config, out, _result, _iterator, _start_time, _learner, last,
                   calls, objects>>

Next ==
    \/ Vector__iter__
    \/ Vector__next__unstarted
    \/ Vector__next__step
    \/ Vector__next__stop
    \/ Adaptive__iter__
    \/ Adaptive__next__unstarted
    \/ Adaptive__next__step
    \/ Adaptive__next__stop
    \/ SetY

Spec == Init /\ [][Next]_vars

\* ------------------------------------------- LinearSweep / LogSweep runs
Coords == 0..MaxCoord
StepSizes == {Float(p, q) : p \in (-1)..MaxNum, q \in 1..MaxDen}
StepFactors ==
    {[pos |-> TRUE, log |-> f] : f \in StepSizes} \cup
    {[pos |-> FALSE, log |-> Float(0, 1)]}

\* a LinearSweep or LogSweep is about to be constructed, with the default
\* roundtrip, npasses and update
InitRange ==
    /\ kind = "new"
    /\ \E cls \in {"LinearSweep", "LogSweep"}, start \in Coords, stop \in Coords,
          nsteps \in {NoneT} \cup {Some(n) : n \in 0..MaxSteps} :
          \E m \in {NoneT} \cup
                    {Some(f) : f \in IF cls = "LinearSweep" THEN StepSizes
                                                             ELSE StepFactors} :
             args = [cls |-> cls, start |-> start, stop |-> stop,
                     nsteps |-> nsteps, max_step |-> m,
                     roundtrip |-> FALSE, npasses |-> 1, update |-> FALSE]
    /\ vector = <<>>
    /\ roundtrip = FALSE
    /\ npasses = 1
    /\ update = FALSE
    /\ npoints = 0
    /\ _result = NoneT
    /\ _step = NoneT
    /\ _iterator = NoneT
    /\ _start_time = NoneT
    /\ _learner = NoneT
    /\ last = "new"
    /\ calls = <<>>
    /\ hist = NoHist
    /\ objects = NoObjects
    /\ out = NoOut

\* the sweep is constructed, then iterated by a caller that writes no y
NextRange ==
    \/ LinearSweep__init__invalid
    \/ LinearSweep__init__
    \/ LogSweep__init__invalid
    \/ LogSweep__init__
    \/ Vector__iter__
    \/ Vector__next__unstarted
    \/ Vector__next__step
    \/ Vector__next__stop

SpecRange == InitRange /\ [][NextRange]_vars

\* --------------------------------------------------- SweepResult alone
\* what a caller may hand to SweepResult(x, y): None, a number, a string,
\* and lists holding None, numbers, strings and nested lists
Values ==
    {None, Num(1), Str(<<1, 2>>), List(<<>>),
     List(<<None, Str(<<1, 2>>)>>), List(<<List(<<Num(1), Num(2)>>)>>)}

\* no sweep: a caller about to build SweepResults
InitResult ==
    /\ kind = "result"
    /\ args = [cls |-> "SweepResult"]
    /\ out = NoOut
    /\ vector = <<>>
    /\ roundtrip = FALSE
    /\ npasses = 1
    /\ update = FALSE
    /\ npoints = 0
    /\ _result = NoneT
    /\ _step = NoneT
    /\ _iterator = NoneT
    /\ _start_time = NoneT
    /\ _learner = NoneT
    /\ last = "new"
    /\ calls = <<>>
    /\ hist = NoHist
    /\ objects = NoObjects

sweep == <<kind, vector, roundtrip, npasses, update, npoints, _result, _step,
           _iterator, _start_time, _learner, last, calls, hist, objects>>

\* r = SweepResult(x, y), kept as the caller's first, second or third result
Construct ==
    /\ kind = "result"
    /\ out.c = NoneT
    /\ out.eq = NoneT
    /\ \E x \in Values, y \in Values :
          LET r == Some(SweepResult(x, y))
          IN /\ args' = [cls |-> "SweepResult", x |-> x, y |-> y]
             /\ out' = IF out.a = NoneT THEN [out EXCEPT !.a = r]
                       ELSE IF out.b = NoneT THEN [out EXCEPT !.b = r]
                       ELSE [out EXCEPT !.c = r]
    /\ UNCHANGED sweep

\* a == b
Compare ==
    /\ kind = "result"
    /\ out.b # NoneT /\ out.c = NoneT
    /\ out.eq = NoneT
    /\ out' = [out EXCEPT !.eq = Some(SweepResult__eq__(out.a[1], out.b[1]))]
    /\ UNCHANGED <<sweep, args>>

\* a + b, (a + b) + c and a + (b + c), and what == says of them
Concatenate ==
    /\ kind = "result"
    /\ out.c # NoneT
    /\ out.sum = NoneT
    /\ LET a == out.a[1]
           b == out.b[1]
           c == out.c[1]
           ab == Plus(a, b)
           ab_c == Plus(Plus(a, b), c)
           a_bc == Plus(a, Plus(b, c))
           joined == SweepResult(List(a.x \o b.x), List(a.y \o b.y))
       IN out' = [out EXCEPT !.sum =
                     Some([ab |-> ab, ab_c |-> ab_c, a_bc |-> a_bc,
                           positional |-> SweepResult__eq__(ab, joined),
                           associative |-> SweepResult__eq__(ab_c, a_bc)])]
    /\ UNCHANGED <<sweep, args>>

NextResult ==
    \/ Construct
    \/ Compare
    \/ Concatenate

SpecResult == InitResult /\ [][NextResult]_vars

\* ------------------------------------- a VectorSweep's result as an object
\* what a caller sees of the SweepResult r: which object it is, which lists
\* its x and y are, and what they hold
Seen(cells, r) ==
    [ref |-> r, xref |-> cells[r].x, yref |-> cells[r].y,
     x |-> XOf(cells, r).items, y |-> YOf(cells, r).items]

\* a VectorSweep made with the default roundtrip, npasses and update, and a
\* caller that holds no SweepResult yet
InitObjects ==
    /\ Init
    /\ kind = "vector"
    /\ ~roundtrip
    /\ npasses = 1
    /\ ~update

\* r1 = sweep.result : the caller now refers to the object self._result
\* refers to (None before the first __iter__, which is not kept)
ReadResult ==
    /\ kind = "vector"
    /\ objects._result # NoneT
    /\ out.a = NoneT
    /\ out' = [out EXCEPT
                  !.a = Some(Seen(objects.cells, objects._result[1]))]
    /\ UNCHANGED <<sweep, args>>

\* r = r1 + sweep.result; the caller keeps r and looks at the second operand
\* before and after
AddResults ==
    /\ kind = "vector"
    /\ objects._result # NoneT
    /\ out.a # NoneT
    /\ out.sum = NoneT
    /\ LET cells == objects.cells
           r2 == objects._result[1]
           r == SweepResult__add__objects(cells, out.a[1].ref,
                                          XOf(cells, r2), YOf(cells, r2))
           sum == Some([r |-> Seen(r.cells, r.ref),
                        r2 |-> Seen(cells, r2),
                        r2after |-> Seen(r.cells, r2)])
       IN /\ out' = [out EXCEPT !.sum = sum]
          /\ objects' = [objects EXCEPT
                           !.cells = Collect(r.cells, Held \cup {r.ref, r2})]
    /\ UNCHANGED <<config, _result, _step, _iterator, _start_time, _learner,
                   last, calls, hist>>

\* one iteration is followed: the caller reads in the iteration it goes on
\* with
NextObjects ==
    \/ (_result = NoneT /\ Vector__iter__)
    \/ Vector__next__unstarted
    \/ Vector__next__step
    \/ Vector__next__stop
    \/ SetY
    \/ ReadResult
    \/ AddResults

SpecObjects == InitObjects /\ [][NextObjects]_vars

\* ================================================================ properties
IsVector == kind = "vector"

\* the call that has just returned is the first of this run to signal exhaustion
Exhausted == last = "StopIteration" /\ hist.stops = 1

\* the call that has just returned handed out a step
Stepped == last = "step" /\ hist.stops = 0

IsPrefix(s, t) == Len(s) <= Len(t) /\ s = SubSeq(t, 1, Len(s))

Reverse(s) == [i \in 1..Len(s) |-> s[Len(s) + 1 - i]]

\* s repeated n times, position by position
Cycle(s, n) == [i \in 1..(Len(s) * n) |-> s[((i - 1) % Len(s)) + 1]]

\* C1: after __iter__ and __next__ calls up to the first StopIteration, with
\* the caller writing y on each step, result.x is the traversal and result.y
\* the y values in traversal order, the last step's included.
C1_LastStepCaptured ==
    (IsVector /\ Exhausted) =>
        /\ result[1].x = Traversal
        /\ result[1].y = hist.ys

\* C1 holds for a vector of numbers, whatever the y values
C1_OnNumbers ==
    (IsVector /\ Exhausted /\ \A i \in 1..Len(vector) : ~IsIterable(vector[i])) =>
        /\ result[1].x = Traversal
        /\ result[1].y = hist.ys

\* C2: once exhaustion has been signalled the result is final: a further
\* __next__ call signals exhaustion again and leaves result.x and result.y
\* unchanged, so no step is folded in twice.
C2_FinalAfterExhaustion ==
    [][(IsVector /\ hist.stops >= 1 /\ hist'.stops = hist.stops + 1)
          => result' = result]_vars

\* C3: len(sweep) is the number of steps a complete iteration hands out.
C3_LenIsStepCount ==
    (IsVector /\ Exhausted) => __len__ = Len(hist.produced)

\* the traversal C4 describes
C4_R == vector \o SubSeq(Reverse(vector), 2, Len(vector) - 1)
C4_Expected ==
    Cycle(C4_R, npasses) \o (IF vector = <<>> THEN <<>> ELSE <<vector[1]>>)

\* C4: with roundtrip, the x values handed out are R repeated npasses times
\* followed by V's first element, R being V forward then V backward without
\* either endpoint: this is the list the iteration walks, at every moment
\* the x values handed out are a prefix of it, at exhaustion all of it.
C4_RoundtripTraversal ==
    (IsVector /\ roundtrip /\ _iterator # NoneT) =>
        /\ _iterator[1].seq = C4_Expected
        /\ IsPrefix(hist.produced, C4_Expected)
        /\ Exhausted => hist.produced = C4_Expected

C4_Witness ==
    /\ IsVector /\ roundtrip /\ Exhausted
    /\ vector = <<Num(1), List(<<Num(1), Num(2)>>), List(<<Num(1), Num(2)>>)>>
    /\ hist.produced = <<Num(1), List(<<Num(1), Num(2)>>),
                         List(<<Num(1), Num(2)>>), List(<<Num(1), Num(2)>>),
                         Num(1)>>

\* C5: without roundtrip, the x values handed out are V repeated npasses
\* times, in order: this is the list the iteration walks, the x values handed
\* out are a prefix of it at every moment and all of it at exhaustion.
C5_PlainTraversal ==
    (IsVector /\ ~roundtrip /\ _iterator # NoneT) =>
        /\ _iterator[1].seq = Cycle(vector, npasses)
        /\ IsPrefix(hist.produced, Cycle(vector, npasses))
        /\ Exhausted => hist.produced = Cycle(vector, npasses)

C5_Witness ==
    /\ IsVector /\ ~roundtrip /\ Exhausted /\ npasses = 2
    /\ hist.produced = <<Num(1), List(<<Num(1), Num(2)>>),
                         Num(1), List(<<Num(1), Num(2)>>)>>

\* C6: for both strategies the callback, when given, has run exactly once
\* for each step handed out, seeing that step's x and a y still unset; the
\* call that signals exhaustion does not run it; without a callback nothing
\* runs.
C6_CallbackOncePerStep ==
    IF update
    THEN /\ Len(calls) = Len(hist.produced)
         /\ \A i \in 1..Len(calls) :
                calls[i].x = hist.produced[i] /\ calls[i].y = None
    ELSE calls = <<>>

C6_Witness ==
    /\ IsVector /\ update /\ Exhausted
    /\ Len(calls) = 3
    /\ hist.ys[1] # None /\ hist.ys[3] # None

\* the result the code folds from the first k steps of this run
RECURSIVE FoldRun(_)
FoldRun(k) ==
    IF k = 0
    THEN [x |-> <<>>, y |-> <<>>]
    ELSE SweepResult__add__(FoldRun(k - 1), hist.produced[k], hist.ys[k])

\* what a commit of a step with this x can append to result.x
StepItems(x) == {x} \cup {x.items[j] : j \in 1..Len(x.items)}

\* the steps of this run a VectorSweep has committed up to the first exhaustion
CommittedSteps ==
    IF hist.stops >= 1 \/ hist.produced = <<>>
    THEN Len(hist.produced)
    ELSE Len(hist.produced) - 1

\* what every __iter__ resets, and what the result then holds
C7_Reset ==
    /\ last = "iter" =>
          /\ _step = NoneT
          /\ _result = Some([x |-> <<>>, y |-> <<>>])
          /\ hist.produced = <<>>
          /\ IsVector =>
                /\ _iterator[1].n = 0
                /\ _iterator[1].seq =
                      (IF roundtrip THEN C4_Expected ELSE Cycle(vector, npasses))
          /\ ~IsVector => _learner = Some([data |-> {}])
    /\ (IsVector /\ result # NoneT /\ hist.stops <= 1) =>
          result[1] = FoldRun(CommittedSteps)
    /\ (IsVector /\ result # NoneT /\ hist.stops >= 2) =>
          LET whole == FoldRun(Len(hist.produced))
          IN /\ IsPrefix(whole.x, result[1].x)
             /\ \A i \in (Len(whole.x) + 1)..Len(result[1].x) :
                    result[1].x[i] \in StepItems(_step[1].x)
    /\ (~IsVector /\ _learner # NoneT) =>
          \A p \in _learner[1].data :
             \E i \in 1..Len(hist.produced) :
                hist.produced[i] = p.x /\ hist.ys[i] = p.y

\* C7 as stated: every __iter__ resets cursor, result and pending step (and
\* the engine), the result holds only steps of the latest run, and a complete
\* second run hands out the x sequence of the complete first one, for every
\* sweep.
C7_RestartAnySweep ==
    /\ C7_Reset
    /\ (Exhausted /\ hist.prevX # NoneT) => hist.produced = hist.prevX[1]

\* C7 (amended): the same, the equal x sequences being claimed of a
\* VectorSweep only; an AdaptiveSweep's x values are the engine's choice.
C7_Restart ==
    /\ C7_Reset
    /\ (IsVector /\ Exhausted /\ hist.prevX # NoneT) =>
          hist.produced = hist.prevX[1]

C7_Witness ==
    /\ IsVector /\ Exhausted /\ hist.prevX # NoneT
    /\ hist.produced = <<Num(1), List(<<Num(1), Num(2)>>)>>
    /\ hist.ys[1] # None
    /\ result[1].x = hist.produced

\* C8: after k >= 1 steps and before exhaustion, result.x is the first k-1
\* elements of the traversal and result.y the y values written on them; the
\* pending step is not in the result.
C8_PartialResult ==
    (IsVector /\ Stepped) =>
        LET k == Len(hist.produced)
        IN /\ result[1].x = SubSeq(Traversal, 1, k - 1)
           /\ result[1].y = SubSeq(hist.ys, 1, k - 1)

\* C8 holds for a vector of numbers, whatever the y values
C8_OnNumbers ==
    (IsVector /\ Stepped /\ \A i \in 1..Len(vector) : ~IsIterable(vector[i])) =>
        LET k == Len(hist.produced)
        IN /\ result[1].x = SubSeq(Traversal, 1, k - 1)
           /\ result[1].y = SubSeq(hist.ys, 1, k - 1)

\* C9: the accumulated result's x and y always have the same length.
C9_SameLength ==
    result # NoneT => Len(result[1].x) = Len(result[1].y)

\* C10: the i-th step handed out (0-based) carries x = T[i], index i and
\* total = len(T), T being the traversal of this iteration.
C10_StepFields ==
    (IsVector /\ Stepped) =>
        LET i == Len(hist.produced) - 1
        IN /\ _step[1].x = Traversal[i + 1]
           /\ _step[1].n = Some(i)
           /\ _step[1].total = Some(Len(Traversal))

\* C11: len(VectorSweep) is len(V)*npasses, doubled with roundtrip, and no
\* call changes it: it has this value before __iter__, after every __next__
\* and after exhaustion.
C11_LenFixed ==
    [][IsVector =>
          /\ __len__ = Len(vector) * npasses * (IF roundtrip THEN 2 ELSE 1)
          /\ __len__' = __len__]_vars

C11_Witness ==
    /\ IsVector /\ roundtrip /\ Len(vector) = 2 /\ npasses = 1
    /\ Exhausted /\ Len(hist.produced) = 3
    /\ __len__ = 4

\* the engine has proposed a not-yet-observed x on every request of this run
Fresh ==
    \A i, j \in 1..Len(hist.produced) :
        i # j => hist.produced[i] # hist.produced[j]

\* the (x, y) pairs a result holds, and those of this run's steps
Pairs(r) == {[x |-> r.x[i], y |-> r.y[i]] : i \in 1..Len(r.x)}
RunPairs(k) == {[x |-> hist.produced[i], y |-> hist.ys[i]] : i \in 1..k}

\* C12: with an engine that proposes a not-yet-observed x on every request,
\* a step is handed out only while the engine's observation count is below
\* npoints, the first call that finds it at npoints signals exhaustion, a
\* complete iteration hands out exactly npoints steps (none for 0), and the
\* result then reads as exactly npoints pairs, each x with the y set for it.
C12_ExactBudget ==
    (~IsVector /\ _learner # NoneT /\ Fresh) =>
        /\ last = "step" => Observations(_learner[1]) < npoints
        /\ last = "StopIteration" => Observations(_learner[1]) >= npoints
        /\ Len(hist.produced) <= npoints
        /\ Exhausted =>
              /\ Len(hist.produced) = npoints
              /\ Observations(_learner[1]) = npoints
              /\ \A r \in Adaptive_result :
                    /\ r.err = ""
                    /\ Len(r.x) = npoints /\ Len(r.y) = npoints
                    /\ Pairs(r) = RunPairs(npoints)

\* C12 holds when the budget is at least 1 and no y is a sequence
C12_WithObservations ==
    (/\ ~IsVector /\ _learner # NoneT /\ Fresh /\ npoints >= 1
     /\ \A i \in 1..Len(hist.ys) : ~IsIterable(hist.ys[i])) =>
        /\ last = "step" => Observations(_learner[1]) < npoints
        /\ last = "StopIteration" => Observations(_learner[1]) >= npoints
        /\ Len(hist.produced) <= npoints
        /\ Exhausted =>
              /\ Len(hist.produced) = npoints
              /\ Observations(_learner[1]) = npoints
              /\ \A r \in Adaptive_result :
                    /\ r.err = ""
                    /\ Len(r.x) = npoints /\ Len(r.y) = npoints
                    /\ Pairs(r) = RunPairs(npoints)

\* the steps of this run an AdaptiveSweep has reported to the engine
ReportedSteps ==
    IF last = "step" THEN Len(hist.produced) - 1 ELSE Len(hist.produced)

\* C13: at every point after __iter__, reading result returns the engine's
\* observations, each reported by a step of this run, with x strictly
\* increasing; a step handed out but not yet reported adds nothing.
C13_ResultIsObservations ==
    (~IsVector /\ _learner # NoneT) =>
        \A r \in Adaptive_result :
            /\ r.err = ""
            /\ Len(r.x) = Len(r.y)
            /\ \A i \in 1..(Len(r.x) - 1) : r.x[i].n < r.x[i + 1].n
            /\ Pairs(r) = _learner[1].data
            /\ Pairs(r) \subseteq RunPairs(ReportedSteps)
            /\ \A i \in 1..ReportedSteps :
                   \E j \in 1..Len(r.x) : r.x[j] = hist.produced[i]

\* C13 holds once the engine has an observation and no y is a sequence
C13_WithObservations ==
    (/\ ~IsVector /\ _learner # NoneT /\ _learner[1].data # {}
     /\ \A i \in 1..Len(hist.ys) : ~IsIterable(hist.ys[i])) =>
        \A r \in Adaptive_result :
            /\ r.err = ""
            /\ Len(r.x) = Len(r.y)
            /\ \A i \in 1..(Len(r.x) - 1) : r.x[i].n < r.x[i + 1].n
            /\ Pairs(r) = _learner[1].data
            /\ Pairs(r) \subseteq RunPairs(ReportedSteps)
            /\ \A i \in 1..ReportedSteps :
                   \E j \in 1..Len(r.x) : r.x[j] = hist.produced[i]

\* C14 as stated: whatever x the engine proposes, an x it was already told
\* included, an iteration never hands out more than npoints steps.
C14_BudgetAnyEngine ==
    ~IsVector => Len(hist.produced) <= npoints

\* C14 (amended): with an engine that never proposes an x it was already
\* told, an iteration never hands out more than npoints steps, and once
\* npoints steps are out the next call finds the budget reached and signals
\* exhaustion.
C14_Budget ==
    (~IsVector /\ _learner # NoneT /\ Fresh) =>
        /\ Len(hist.produced) <= npoints
        /\ Len(hist.produced) = npoints => Observations(Told[1]) >= npoints
        /\ hist.stops >= 1 => Len(hist.produced) = npoints

C14_Witness ==
    /\ ~IsVector /\ Fresh /\ npoints = 2
    /\ Exhausted /\ hist.produced = <<Num(2), Num(1)>>

\* the first step of this run produced at the x of step i
FirstAt(i) ==
    CHOOSE j \in 1..i :
        /\ hist.produced[j] = hist.produced[i]
        /\ \A l \in 1..(j - 1) : hist.produced[l] # hist.produced[i]

\* C22: when an AdaptiveSweep has asked the engine for the k-th point of a
\* run, each of the k - 1 steps produced before it has been reported with
\* the y the caller set on it (an x reported again keeps the y of its first
\* report, the engine holds nothing else), and the budget was read against
\* the engine's count with the previous step already reported.
C22_FeedbackFirst ==
    (~IsVector /\ _learner # NoneT /\ last = "step") =>
        LET k == Len(hist.produced)
        IN /\ k >= 1
           /\ _step # NoneT /\ _step[1].x = hist.produced[k]
           /\ _learner[1].data =
                 {[x |-> hist.produced[FirstAt(i)], y |-> hist.ys[FirstAt(i)]] :
                     i \in 1..(k - 1)}
           /\ Observations(_learner[1]) < npoints

C22_Witness ==
    /\ ~IsVector /\ last = "step" /\ npoints = 2
    /\ hist.produced = <<Num(2), Num(2), Num(1)>>
    /\ hist.ys[1] = Num(7) /\ hist.ys[2] = List(<<Num(7)>>)
    /\ _learner[1].data = {[x |-> Num(2), y |-> Num(7)]}

\* a next-step call of a VectorSweep that commits the step it handed out
Commits ==
    /\ IsVector /\ _step # NoneT /\ _result # NoneT
    /\ CallsThisRun' = CallsThisRun + 1

\* C23: every commit of a VectorSweep appends exactly one element to
\* result.x, the step's x, and exactly one to result.y, the step's y as it
\* is, whether y is None, a number or a sequence and whether x is a number
\* or a sequence.
C23_CommitAppendsOne ==
    [][Commits =>
          /\ _result'[1].x = Append(_result[1].x, _step[1].x)
          /\ _result'[1].y = Append(_result[1].y, _step[1].y)]_vars

\* C23 holds of every commit but those of a sequence x with a sequence y
C23_UnlessBothSequences ==
    [][(Commits /\ ~(IsIterable(_step[1].x) /\ IsIterable(_step[1].y))) =>
          /\ _result'[1].x = Append(_result[1].x, _step[1].x)
          /\ _result'[1].y = Append(_result[1].y, _step[1].y)]_vars

\* C24: r1 + r2 returns a new SweepResult, with lists of its own, and leaves
\* r1.x, r1.y, r2.x and r2.y as they were; and a SweepResult read from
\* VectorSweep.result stays as it was read through every later call (each
\* commit makes self._result refer to a new SweepResult, which holds what
\* the accumulator holds).
C24_OperandsUntouched ==
    IsVector =>
        /\ out.a # NoneT =>
              Seen(objects.cells, out.a[1].ref) = out.a[1]
        /\ out.sum # NoneT =>
              LET r1 == out.a[1]
                  r2 == out.sum[1].r2
                  r == out.sum[1].r
              IN /\ out.sum[1].r2after = r2
                 /\ r.ref \notin {r1.ref, r2.ref}
                 /\ {r.xref, r.yref} \cap
                        {r1.xref, r1.yref, r2.xref, r2.yref} = {}
                 /\ r.x = r1.x \o r2.x
                 /\ r.y = r1.y \o r2.y
                 /\ Seen(objects.cells, r.ref) = r
        /\ _result # NoneT =>
              /\ objects._result # NoneT
              /\ XOf(objects.cells, objects._result[1]).items = _result[1].x
              /\ YOf(objects.cells, objects._result[1]).items = _result[1].y

C24_Witness ==
    /\ IsVector /\ Exhausted
    /\ out.a # NoneT /\ out.sum # NoneT
    /\ out.a[1].x = <<Num(1)>> /\ out.a[1].y = <<List(<<Num(7)>>)>>
    /\ Len(out.sum[1].r2.x) = 2 /\ Len(out.sum[1].r.x) = 3
    /\ Len(_result[1].x) = 3
    /\ out.a[1].ref # objects._result[1]

\* ------------------------------------ LinearSweep / LogSweep (SpecRange)
\* the constructor has been called and has made no object
Rejected ==
    /\ last = "ValueError"
    /\ kind = "new"
    /\ vector = <<>>
    /\ _iterator = NoneT /\ _step = NoneT /\ _result = NoneT
    /\ hist.produced = <<>>

\* C15: a LinearSweep given max_step_size <= 0 and a LogSweep given
\* max_step_factor <= 1 raise ValueError at construction: no sweep object
\* exists afterwards, so nothing is ever iterated and no step handed out.
C15_InvalidRejected ==
    /\ (/\ args.cls = "LinearSweep" /\ last # "new"
        /\ args.max_step # NoneT /\ args.max_step[1].n <= 0) => Rejected
    /\ (/\ args.cls = "LogSweep" /\ last # "new"
        /\ args.max_step # NoneT
        /\ (~args.max_step[1].pos \/ args.max_step[1].log.n <= 0)) => Rejected

C15_Witness ==
    /\ args.cls = "LogSweep"
    /\ args.max_step = Some([pos |-> TRUE, log |-> Float(0, 1)])
    /\ args.start # args.stop
    /\ Rejected

\* b - a for two floats
Diff(a, b) == Float(b.n * a.d - a.n * b.d, a.d * b.d)

UniformToward(x, start, stop) ==
    /\ \A i \in 1..(Len(x) - 2) :
           Diff(x[i], x[i + 1]) = Diff(x[i + 1], x[i + 2])
    /\ \A i \in 1..(Len(x) - 1) :
           LET g == Diff(x[i], x[i + 1])
           IN IF stop > start THEN g.n > 0
              ELSE IF stop < start THEN g.n < 0
              ELSE g.n = 0

\* a LinearSweep(start, stop, nsteps) has just been iterated to exhaustion
LinearByCount ==
    /\ args.cls = "LinearSweep" /\ kind = "vector"
    /\ args.max_step = NoneT /\ args.nsteps # NoneT
    /\ Exhausted

\* C17 as stated: for every nsteps >= 1 the result of a complete iteration
\* has nsteps x values, uniformly spaced and monotonic toward stop, the
\* first equal to start and the last equal to stop.
C17_EndpointsAnyCount ==
    (LinearByCount /\ args.nsteps[1] >= 1) =>
        LET x == result[1].x
        IN /\ Len(x) = args.nsteps[1]
           /\ UniformToward(x, args.start, args.stop)
           /\ x[1] = Float(args.start, 1)
           /\ x[Len(x)] = Float(args.stop, 1)

\* C17 (amended): the same for every nsteps >= 2; for nsteps = 1 the result
\* has the single x value start, whatever stop is.
C17_Endpoints ==
    /\ (LinearByCount /\ args.nsteps[1] >= 2) =>
          LET x == result[1].x
          IN /\ Len(x) = args.nsteps[1]
             /\ UniformToward(x, args.start, args.stop)
             /\ x[1] = Float(args.start, 1)
             /\ x[Len(x)] = Float(args.stop, 1)
    /\ (LinearByCount /\ args.nsteps[1] = 1) =>
          result[1].x = <<Float(args.start, 1)>>

C17_Witness ==
    /\ LinearByCount
    /\ args.start = 3 /\ args.stop = 1 /\ args.nsteps = Some(4)
    /\ result[1].x = <<Float(3, 1), Float(7, 3), Float(5, 3), Float(1, 1)>>

SameSeq(s, t) == Len(s) = Len(t) /\ \A i \in 1..Len(s) : s[i] = t[i]

\* C18: + is positional and associative: a + b holds a's x values followed
\* by b's and a's y values followed by b's, == finds it equal to the
\* SweepResult built from the joined sequences, and (a + b) + c == a + (b + c),
\* whatever the elements are (None, numbers, strings, nested lists).
C18_Concatenation ==
    out.sum # NoneT =>
        LET a == out.a[1]
            b == out.b[1]
            c == out.c[1]
            sum == out.sum[1]
        IN /\ SameSeq(sum.ab.x, a.x \o b.x)
           /\ SameSeq(sum.ab.y, a.y \o b.y)
           /\ sum.positional
           /\ sum.associative
           /\ SameSeq(sum.ab_c.x, sum.a_bc.x)
           /\ SameSeq(sum.ab_c.y, sum.a_bc.y)
           /\ SameSeq(sum.ab_c.x, a.x \o b.x \o c.x)
           /\ SameSeq(sum.ab_c.y, a.y \o b.y \o c.y)

C18_Witness ==
    /\ out.sum # NoneT
    /\ out.a[1] = [x |-> <<None, Str(<<1, 2>>)>>,
                   y |-> <<List(<<Num(1), Num(2)>>)>>]
    /\ out.b[1] = [x |-> <<List(<<Num(1), Num(2)>>)>>,
                   y |-> <<None, Str(<<1, 2>>)>>]
    /\ out.c[1] = [x |-> <<Str(<<1>>), Str(<<2>>)>>, y |-> <<>>]
    /\ out.sum[1].ab.x = <<None, Str(<<1, 2>>), List(<<Num(1), Num(2)>>)>>

\* C19: a == b exactly when the x sequences agree in length and at every
\* position and the y sequences do too; a difference in x alone or in y
\* alone makes them unequal.
C19_Equality ==
    out.eq # NoneT =>
        LET a == out.a[1]
            b == out.b[1]
        IN /\ out.eq[1] = (SameSeq(a.x, b.x) /\ SameSeq(a.y, b.y))
           /\ (SameSeq(a.x, b.x) /\ ~SameSeq(a.y, b.y)) => out.eq[1] = FALSE
           /\ (~SameSeq(a.x, b.x) /\ SameSeq(a.y, b.y)) => out.eq[1] = FALSE

C19_Witness ==
    /\ out.eq = Some(FALSE)
    /\ out.a[1].x = <<None, Str(<<1, 2>>)>> /\ out.b[1].x = out.a[1].x
    /\ out.a[1].y = out.a[1].x
    /\ out.b[1].y = <<List(<<Num(1), Num(2)>>)>>

\* the SweepResult the caller built last
Built ==
    IF out.c # NoneT THEN out.c ELSE IF out.b # NoneT THEN out.b ELSE out.a

\* C20: SweepResult(x, y) wraps a scalar argument, None included, into a
\* one-element sequence: SweepResult(x, None) with a scalar x has x == [x]
\* and y == [None]; two sequence arguments are stored element by element.
C20_ScalarWrapped ==
    (Built # NoneT /\ out.eq = NoneT /\ out.sum = NoneT) =>
        LET r == Built[1]
            x == args.x
            y == args.y
        IN /\ x.k \in {"none", "num"} => r.x = <<x>>
           /\ y.k \in {"none", "num"} => r.y = <<y>>
           /\ (x.k \in {"none", "num"} /\ y = None) =>
                 /\ Len(r.x) = 1 /\ r.x[1] = x
                 /\ Len(r.y) = 1 /\ r.y[1] = None
           /\ (x.k = "list" /\ y.k = "list") =>
                 /\ SameSeq(r.x, x.items)
                 /\ SameSeq(r.y, y.items)

C20_Witness ==
    /\ Built # NoneT /\ out.b = NoneT
    /\ args.x = Num(1) /\ args.y = None
    /\ Built[1] = [x |-> <<Num(1)>>, y |-> <<None>>]

====
